---- MODULE Spec2Model ----
(***************************************************************************)
(* Model of scrape_pitchvc.py: the pagination loop of get_company_links,   *)
(* the per-page extractor scrape_company_data and the __main__ script that *)
(* sequences discovery, the per-link loop and the final json.dump.         *)
(*                                                                         *)
(* The remote site is the environment.  It is fixed in Init (what every    *)
(* listing index and every detail path answers) and never changes during a *)
(* run; the script's own state is its local variables and its position.    *)
(***************************************************************************)
EXTENDS Integers, Sequences, FiniteSets, TLC

\* ------------------------------------------------------------------ bounds
\* number of distinct detail paths the site knows ("/companies/<n>")
NumLinks == 2
\* longest scripted prefix of listing pages the site answers individually
MaxPages == 2
\* most matching anchors on one listing page
MaxLinksPerPage == 2
\* largest listing index the model lets the loop request
PageCap == 4
\* longest text (heading, chip, date badge) of the extraction inputs
MaxTextLen == 3
\* most chips, member cards or milestone cards of the extraction inputs
MaxItems == 3
\* most headline and text elements of the extraction inputs
MaxBody == 4
\* most date badges of the extraction inputs
MaxBadges == 2

\* ------------------------------------------------------- program constants
\* the only status the script accepts (status_code != 200)
HTTP_OK == 200
\* a representative non-success status
HTTP_NOT_FOUND == 404
\* time.sleep(2) after a listing page that produced links
LISTING_DELAY == 2
\* time.sleep(1) after each detail page
DETAIL_DELAY == 1

VARIABLES
    listing,        \* site: responses of listing indices 1..Len(listing)
    tail,           \* site: what indices beyond Len(listing) answer
    detail,         \* site: response of each detail path
    pc,             \* position of the script
    page,           \* get_company_links: page
    company_links,  \* get_company_links: company_links (with repeats)
    unique_links,   \* __main__: company_links (the returned list)
    idx,            \* __main__: position of the for loop in unique_links
    all_data,       \* __main__: all_data
    companies_json, \* the file companies.json: <<>> absent, <<content>> written
    log             \* outbound events in program order: requests and sleeps

vars == <<listing, tail, detail, pc, page, company_links, unique_links, idx,
          all_data, companies_json, log>>

Links == 1..NumLinks

\* ------------------------------------------------------------ the site
\* sequences over S of length at most n
RECURSIVE SeqsUpTo(_, _)
SeqsUpTo(S, n) ==
    IF n = 0 THEN {<<>>}
    ELSE LET shorter == SeqsUpTo(S, n - 1)
         IN  shorter \cup {Append(s, x) : s \in shorter, x \in S}

\* the hrefs of the anchors of one listing body that pass both filters of
\* lines 20-21, in document order (a path may occur twice on a page)
PageContents == SeqsUpTo(Links, MaxLinksPerPage)

\* requests.get either raises (transport failure) or returns a response
\* with a status code and a body
ListingResponses ==
    {[outcome |-> "exception", status |-> 0, links |-> <<>>]}
    \cup [outcome : {"response"}, status : {HTTP_OK, HTTP_NOT_FOUND},
          links : PageContents]

EmptyListingPage == [outcome |-> "response", status |-> HTTP_OK, links |-> <<>>]

\* ----------------------------------------------------- detail documents
\* A text is a sequence of tokens; 0 (in names and chips) and " " (in date
\* badges) are whitespace, '' is <<>>.  An optional element is <<>> when
\* soup.find returns None and <<x>> when it is found.
\*   h1        h1.text-3xl: its text
\*   tagline   the caption block: its text
\*   social    div.bg-gray-200/30: [website, location, dates]
\*   body      the h2.section-headline and div.text elements in document
\*             order: [kind |-> "h2", ps |-> contains "Problem statement"]
\*             and [kind |-> "text", text |-> ...]
\*   tags      the texts of the span.tag chips
\*   team      the member cards of the team grid
\*   milestones the div "border rounded-lg p-6" cards

\* shapes of a member card of the team grid (lines 111-123)
\*   ok        name block with a text node first and the role sub-line
\*   noNameDiv no name block: member.find(...) is None, card skipped silently
\*   noRole    name block without role sub-line: .text on None raises
CardShapes == {"ok", "noNameDiv", "noRole"}

\* the label tokens of the date badges (lines 89-92)
FOUNDED == "Founded"
PROFILE_UPDATED == "Profile updated"

\* a page of company l with the heading only (every loop of lines 69-141
\* finds nothing)
BareDoc(l) ==
    [h1 |-> << <<l>> >>, tagline |-> <<>>, social |-> <<>>, body |-> <<>>,
     tags |-> <<>>, team |-> <<>>, milestones |-> <<>>]

\* a page of company l with every section filled in
FullDoc(l) ==
    [h1 |-> << <<0, l>> >>,
     tagline |-> << <<l, 0>> >>,
     social |-> << [website |-> <<l>>, location |-> <<0, l>>,
                    dates |-> << <<FOUNDED, " ", "2020">>,
                                 <<PROFILE_UPDATED, " ", "2024">> >>] >>,
     body |-> << [kind |-> "text", ps |-> FALSE, text |-> <<l>>],
                 [kind |-> "h2", ps |-> TRUE, text |-> <<>>],
                 [kind |-> "text", ps |-> FALSE, text |-> <<l, l>>] >>,
     tags |-> << <<l>> >>,
     team |-> << [shape |-> "ok", name |-> l] >>,
     milestones |-> << [id |-> l, date |-> TRUE, title |-> TRUE,
                       description |-> TRUE] >>]

\* detail documents used by the run: no h1.text-3xl, a complete page, and
\* a page whose team card is malformed; the company at path n is named n
DocsOf(l) ==
    { [FullDoc(l) EXCEPT !.h1 = <<>>],
      FullDoc(l),
      [FullDoc(l) EXCEPT !.team = << [shape |-> "noRole", name |-> l] >>] }

DetailResponsesOf(l) ==
    {[outcome |-> "exception", status |-> 0, doc |-> BareDoc(l)]}
    \cup {[outcome |-> "response", status |-> HTTP_NOT_FOUND,
           doc |-> BareDoc(l)]}
    \cup [outcome : {"response"}, status : {HTTP_OK}, doc : DocsOf(l)]

\* a site that accepts the request and never sends an answer
SilentListing == [outcome |-> "no_answer", status |-> 0, links |-> <<>>]
SilentDetail(l) == [outcome |-> "no_answer", status |-> 0, doc |-> BareDoc(l)]

\* lines 14 and 39: requests.get(url) is called without timeout=, which
\* requests takes as None (wait without limit); <<>> is None, <<secs>> a limit
RequestTimeout == <<>>

\* requests.get against a site answer: an answer is passed on; without an
\* answer the call raises Timeout after the limit, or never returns when
\* there is no limit
RequestsGet(answer, timeout) ==
    IF answer.outcome # "no_answer" THEN answer
    ELSE IF timeout = <<>> THEN [answer EXCEPT !.outcome = "blocked"]
    ELSE [answer EXCEPT !.outcome = "exception"]

\* response of requests.get(f"{BASE_URL}/companies?page={n}")
ListingAt(n) ==
    IF n <= Len(listing) THEN listing[n]
    ELSE IF tail = "repeat" /\ Len(listing) > 0 THEN listing[Len(listing)]
    ELSE EmptyListingPage

\* ------------------------------------------------------------ helpers
Range(s) == {s[i] : i \in 1..Len(s)}

\* variant: only server errors count as a failed fetch
StatusFailedOnlyServerErrors(resp) == resp.status >= 500

\* line 15: response.status_code != 200
StatusFailed(resp) == resp.status # HTTP_OK

\* variant: stop when the page has no path that is not collected already
NoUncollectedCompanies(new_links, collected) ==
    Range(new_links) \subseteq Range(collected)

\* line 23: if not new_links
NoMoreCompanies(new_links, collected) == new_links = <<>>

\* variant: the page's links replace the collected ones
ExtendOverwriting(collected, new_links) == new_links

\* line 27: company_links.extend(new_links)
Extend(collected, new_links) == collected \o new_links

\* variant: the pause is left out
NoSleep(events, secs) == events

\* lines 31 and 163: time.sleep(secs)
Sleep(events, secs) == Append(events, [kind |-> "sleep", arg |-> secs])

\* all orderings of a finite set as duplicate-free sequences
Orderings(S) ==
    {s \in [1..Cardinality(S) -> S] : \A i, j \in 1..Cardinality(S) :
                                          s[i] = s[j] => i = j}

\* variant: the collected list is returned as it is
CollectedAsIs(collected) == {collected}

\* line 33: list(set(company_links)); the iteration order of a set of
\* strings depends on the per-process hash seed, so every ordering of the
\* distinct paths is a possible result
UniqueLinkOrders(collected) == Orderings(Range(collected))

\* str.strip(): leading and trailing whitespace tokens are dropped
IsSpace(tok) == tok = 0

RECURSIVE LStrip(_)
LStrip(t) == IF t # <<>> /\ IsSpace(Head(t)) THEN LStrip(Tail(t)) ELSE t

RECURSIVE RStrip(_)
RStrip(t) ==
    IF t # <<>> /\ IsSpace(t[Len(t)]) THEN RStrip(SubSeq(t, 1, Len(t) - 1))
    ELSE t

Strip(t) == LStrip(RStrip(t))

\* lines 89, 91: label in date.text
Contains(text, label) == \E i \in 1..Len(text) : text[i] = label

\* lines 90, 92: date.text.replace(label + ' ', ''), every occurrence
RECURSIVE RemoveLabel(_, _)
RemoveLabel(text, label) ==
    IF Len(text) < 2 THEN text
    ELSE IF text[1] = label /\ text[2] = " "
         THEN RemoveLabel(SubSeq(text, 3, Len(text)), label)
         ELSE <<Head(text)>> \o RemoveLabel(Tail(text), label)

\* lines 88-92: the loop over the date badges, started from the defaults
RECURSIVE ExtractDates(_, _)
ExtractDates(dates, acc) ==
    IF dates = <<>> THEN acc
    ELSE LET text == Head(dates)
         IN  ExtractDates(Tail(dates),
                 IF Contains(text, FOUNDED)
                 THEN [acc EXCEPT !.founded_date = RemoveLabel(text, FOUNDED)]
                 ELSE IF Contains(text, PROFILE_UPDATED)
                 THEN [acc EXCEPT !.last_updated =
                                      RemoveLabel(text, PROFILE_UPDATED)]
                 ELSE acc)

\* line 95: soup.find_all('div', class_='text')
TextSections(body) == SelectSeq(body, LAMBDA e : e.kind = "text")

\* line 100: section.find_previous('h2', class_='section-headline') for the
\* element at position i: the nearest such heading before it, <<>> if none
FindPreviousHeadline(body, i) ==
    LET before == {j \in 1..(i - 1) : body[j].kind = "h2"}
    IN  IF before = {} THEN <<>>
        ELSE << body[CHOOSE j \in before : \A k \in before : k <= j] >>

\* lines 99-101: the loop over the text sections, last match wins
RECURSIVE ProblemStatementFrom(_, _, _)
ProblemStatementFrom(body, i, acc) ==
    IF i > Len(body) THEN acc
    ELSE ProblemStatementFrom(body, i + 1,
             IF body[i].kind = "text"
                /\ FindPreviousHeadline(body, i) # <<>>
                /\ FindPreviousHeadline(body, i)[1].ps
             THEN Strip(body[i].text)
             ELSE acc)

\* line 106: [tag.text.strip() for tag in tag_elements if tag.text]
RECURSIVE ExtractTags(_)
ExtractTags(chips) ==
    IF chips = <<>> THEN <<>>
    ELSE (IF Head(chips) # <<>> THEN << Strip(Head(chips)) >> ELSE <<>>)
         \o ExtractTags(Tail(chips))

\* lines 111-123: one card of the team grid; <<>> when the card is skipped
\* (either silently or through the inner except), <<entry>> otherwise
TeamMember(card) ==
    IF card.shape = "ok" THEN << [name |-> card.name, role |-> card.name] >>
    ELSE <<>>

RECURSIVE ExtractTeam(_)
ExtractTeam(cards) ==
    IF cards = <<>> THEN <<>>
    ELSE TeamMember(Head(cards)) \o ExtractTeam(Tail(cards))

\* variant: a card without description is skipped as well
MilestoneWithDescription(card) ==
    IF card.date /\ card.title /\ card.description
    THEN << [date |-> <<card.id>>, title |-> <<card.id>>,
             description |-> <<card.id>>] >>
    ELSE <<>>

\* lines 127-141: one milestone card
Milestone(card) ==
    IF card.date /\ card.title
    THEN << [date |-> <<card.id>>, title |-> <<card.id>>,
             description |-> IF card.description THEN <<card.id>> ELSE <<>>] >>
    ELSE <<>>

RECURSIVE ExtractMilestones(_)
ExtractMilestones(cards) ==
    IF cards = <<>> THEN <<>>
    ELSE Milestone(Head(cards)) \o ExtractMilestones(Tail(cards))

\* lines 47-59: data initialised with the default values
DefaultData ==
    [company_name |-> <<>>, tagline |-> <<>>, website |-> <<>>,
     location |-> <<>>, description |-> <<>>, tags |-> <<>>, team |-> <<>>,
     problem_statement |-> <<>>, milestones |-> <<>>,
     founded_date |-> <<>>, last_updated |-> <<>>]

\* lines 61-144: the dict built from a parsed page that has the heading
ExtractFields(doc) ==
    LET dated == IF doc.social = <<>> THEN DefaultData
                 ELSE ExtractDates(doc.social[1].dates, DefaultData)
        texts == TextSections(doc.body)
    IN  [company_name |-> Strip(doc.h1[1]),
         tagline |-> IF doc.tagline = <<>> THEN <<>>
                     ELSE Strip(doc.tagline[1]),
         website |-> IF doc.social = <<>> THEN <<>>
                     ELSE doc.social[1].website,
         location |-> IF doc.social = <<>> THEN <<>>
                      ELSE Strip(doc.social[1].location),
         description |-> IF texts = <<>> THEN <<>> ELSE Strip(texts[1].text),
         tags |-> ExtractTags(doc.tags),
         team |-> ExtractTeam(doc.team),
         problem_statement |-> ProblemStatementFrom(doc.body, 1, <<>>),
         milestones |-> ExtractMilestones(doc.milestones),
         founded_date |-> dated.founded_date,
         last_updated |-> dated.last_updated]

\* variant: an exception of a team card reaches the outer except (line 146)
scrape_company_data_strict(resp) ==
    IF resp.outcome = "exception" THEN <<>>
    ELSE IF resp.status # HTTP_OK THEN <<>>
    ELSE IF resp.doc.h1 = <<>> THEN <<>>
    ELSE IF \E i \in 1..Len(resp.doc.team) : resp.doc.team[i].shape = "noRole"
         THEN <<>>
    ELSE << ExtractFields(resp.doc) >>

\* variant: a heading without text is treated like a missing heading
scrape_company_data_named(resp) ==
    IF resp.outcome = "exception" THEN <<>>
    ELSE IF resp.status # HTTP_OK THEN <<>>
    ELSE IF resp.doc.h1 = <<>> THEN <<>>
    ELSE IF Strip(resp.doc.h1[1]) = <<>> THEN <<>>
    ELSE << ExtractFields(resp.doc) >>

\* lines 37-148: None is <<>>, a returned dict is <<data>>
scrape_company_data(resp) ==
    IF resp.outcome = "exception" THEN <<>>
    ELSE IF resp.status # HTTP_OK THEN <<>>
    ELSE IF resp.doc.h1 = <<>> THEN <<>>
    ELSE << ExtractFields(resp.doc) >>

\* variant: the result is appended without the truth test
AppendAlways(data, company_data) ==
    Append(data, IF company_data # <<>> THEN company_data[1]
                 ELSE DefaultData)

\* variant: a new record is put in front
PrependIfData(data, company_data) ==
    IF company_data # <<>> THEN <<company_data[1]>> \o data ELSE data

\* lines 161-162: if company_data: all_data.append(company_data)
AppendIfData(data, company_data) ==
    IF company_data # <<>> THEN Append(data, company_data[1]) ELSE data

\* variant: the loop ends one link early
LoopExhaustedEarly(i, links) == i >= Len(links)

\* line 157: the for loop has no link left
LoopExhausted(i, links) == i > Len(links)

\* ------------------------------------------------------------ the script
Init ==
    /\ listing \in SeqsUpTo(ListingResponses, MaxPages)
    /\ tail \in {"empty", "repeat"}
    /\ detail \in {f \in [Links -> UNION {DetailResponsesOf(l) : l \in Links}] :
                     \A l \in Links : f[l] \in DetailResponsesOf(l)}
    /\ pc = "get_company_links"
    /\ page = 1
    /\ company_links = <<>>
    /\ unique_links = <<>>
    /\ idx = 1
    /\ all_data = <<>>
    /\ companies_json = <<>>
    /\ log = <<>>

\* one iteration of the while loop of get_company_links (lines 12-31)
ScanPage ==
    /\ pc = "get_company_links"
    /\ page <= PageCap
    /\ LET response == RequestsGet(ListingAt(page), RequestTimeout)
           fetched == Append(log, [kind |-> "listing", arg |-> page])
       IN  IF response.outcome = "blocked"
           THEN \* line 14 never returns
                /\ pc' = "in_fetch"
                /\ log' = fetched
                /\ UNCHANGED <<page, company_links>>
           ELSE IF response.outcome = "exception"
           THEN \* requests.get raises; nothing in the script catches it
                /\ pc' = "aborted"
                /\ log' = fetched
                /\ UNCHANGED <<page, company_links>>
           ELSE IF StatusFailed(response)
           THEN /\ pc' = "return_links"
                /\ log' = fetched
                /\ UNCHANGED <<page, company_links>>
           ELSE LET new_links == response.links
                IN  IF NoMoreCompanies(new_links, company_links)
                    THEN /\ pc' = "return_links"
                         /\ log' = fetched
                         /\ UNCHANGED <<page, company_links>>
                    ELSE /\ company_links' = Extend(company_links, new_links)
                         /\ page' = page + 1
                         /\ log' = Sleep(fetched, LISTING_DELAY)
                         /\ pc' = "get_company_links"
    /\ UNCHANGED <<listing, tail, detail, unique_links, idx, all_data,
                   companies_json>>

\* lines 33-35 and 153-154: deduplicate, return, start the per-link loop
ReturnUniqueLinks ==
    /\ pc = "return_links"
    /\ unique_links' \in UniqueLinkOrders(company_links)
    /\ all_data' = <<>>
    /\ idx' = 1
    /\ pc' = "for_links"
    /\ UNCHANGED <<listing, tail, detail, page, company_links,
                   companies_json, log>>

\* one iteration of the for loop of __main__ (lines 157-163)
ProcessLink ==
    /\ pc = "for_links"
    /\ ~ LoopExhausted(idx, unique_links)
    /\ LET relative_link == unique_links[idx]
           response == RequestsGet(detail[relative_link], RequestTimeout)
           company_data == scrape_company_data(response)
           fetched == Append(log, [kind |-> "detail", arg |-> relative_link])
       IN  IF response.outcome = "blocked"
           THEN \* line 39 never returns
                /\ pc' = "in_fetch"
                /\ log' = fetched
                /\ UNCHANGED <<all_data, idx>>
           ELSE /\ all_data' = AppendIfData(all_data, company_data)
                /\ log' = Sleep(fetched, DETAIL_DELAY)
                /\ idx' = idx + 1
                /\ pc' = pc
    /\ UNCHANGED <<listing, tail, detail, page, company_links,
                   unique_links, companies_json>>

\* lines 165-171: the loop is exhausted, write companies.json
SaveData ==
    /\ pc = "for_links"
    /\ LoopExhausted(idx, unique_links)
    /\ companies_json' = <<all_data>>
    /\ pc' = "done"
    /\ UNCHANGED <<listing, tail, detail, page, company_links, unique_links,
                   idx, all_data, log>>

Next == ScanPage \/ ReturnUniqueLinks \/ ProcessLink \/ SaveData

Spec == Init /\ [][Next]_vars

\* the interpreter always runs the next statement of the single thread
FairSpec == Spec /\ WF_vars(Next)

\* the program's own variables at the start of the script
InitScript ==
    /\ pc = "get_company_links"
    /\ page = 1
    /\ company_links = <<>>
    /\ unique_links = <<>>
    /\ idx = 1
    /\ all_data = <<>>
    /\ companies_json = <<>>
    /\ log = <<>>

\* runs against sites that may leave a request without any answer
InitSlowSite ==
    /\ listing \in SeqsUpTo(ListingResponses \cup {SilentListing}, MaxPages)
    /\ tail \in {"empty", "repeat"}
    /\ detail \in {f \in [Links -> UNION {DetailResponsesOf(l)
                                             \cup {SilentDetail(l)} :
                                         l \in Links}] :
                     \A l \in Links :
                         f[l] \in DetailResponsesOf(l) \cup {SilentDetail(l)}}
    /\ InitScript

SpecSlowSite == InitSlowSite /\ [][Next]_vars

\* ------------------------------------------- inputs of the field extractor
\* heading, tagline and chip texts: 0 is whitespace, 1 and 2 are words
NameTexts == SeqsUpTo({0, 1}, MaxTextLen)

MemberCards == [shape : CardShapes, name : {1, 2}]

MilestoneCards ==
    [id : {1, 2}, date : BOOLEAN, title : BOOLEAN, description : BOOLEAN]

BodyElements ==
    [kind : {"h2"}, ps : BOOLEAN, text : {<<>>}]
    \cup [kind : {"text"}, ps : {FALSE}, text : {<<1>>, <<2, 0>>}]

DateTexts == SeqsUpTo({FOUNDED, PROFILE_UPDATED, " ", "2020"}, MaxTextLen)

\* pages of company 1 that differ from the complete page in one section
HeadingDocs ==
    {[FullDoc(1) EXCEPT !.h1 = h] :
         h \in {<<>>} \cup {<<t>> : t \in NameTexts}}
TagDocs ==
    {[FullDoc(1) EXCEPT !.tags = c] : c \in SeqsUpTo(NameTexts, MaxItems)}
TeamDocs ==
    {[FullDoc(1) EXCEPT !.team = c] : c \in SeqsUpTo(MemberCards, MaxItems)}
MilestoneDocs ==
    {[FullDoc(1) EXCEPT !.milestones = c] :
         c \in SeqsUpTo(MilestoneCards, MaxItems)}
BodyDocs ==
    {[FullDoc(1) EXCEPT !.body = b] : b \in SeqsUpTo(BodyElements, MaxBody)}
DateDocs ==
    {[FullDoc(1) EXCEPT !.social[1].dates = d] :
         d \in SeqsUpTo(DateTexts, MaxBadges)}

\* a site with the single card /companies/1 whose page is the document doc
SiteWithPage(doc) ==
    /\ listing = << [outcome |-> "response", status |-> HTTP_OK,
                     links |-> <<1>>] >>
    /\ tail = "empty"
    /\ detail = [l \in Links |->
                    IF l = 1
                    THEN [outcome |-> "response", status |-> HTTP_OK,
                          doc |-> doc]
                    ELSE [outcome |-> "exception", status |-> 0,
                          doc |-> BareDoc(l)]]

InitExtract ==
    /\ \/ \E doc \in HeadingDocs : SiteWithPage(doc)
       \/ \E doc \in TagDocs : SiteWithPage(doc)
       \/ \E doc \in TeamDocs : SiteWithPage(doc)
       \/ \E doc \in MilestoneDocs : SiteWithPage(doc)
       \/ \E doc \in BodyDocs : SiteWithPage(doc)
    /\ InitScript

SpecExtract == InitExtract /\ [][Next]_vars

InitDates ==
    /\ \E doc \in DateDocs : SiteWithPage(doc)
    /\ InitScript

SpecDates == InitDates /\ [][Next]_vars

TypeOK ==
    /\ pc \in {"get_company_links", "return_links", "for_links", "done",
               "aborted", "in_fetch"}
    /\ page \in 1..(PageCap + 1)
    /\ idx \in 1..(NumLinks + 1)
    /\ Len(companies_json) <= 1

\* ------------------------------------------------- observations of a run
IsRequest(e) == e.kind \in {"listing", "detail"}

\* listing indices requested so far, and detail paths requested so far
FetchedPages == {log[i].arg : i \in {j \in 1..Len(log) : log[j].kind = "listing"}}
FetchedLinks == {log[i].arg : i \in {j \in 1..Len(log) : log[j].kind = "detail"}}

\* get_company_links has left its loop through a break / has returned
DiscoveryEnded == pc \in {"return_links", "for_links", "done"}
DiscoveryReturned == pc \in {"for_links", "done"}

\* listing index n answers with status 200 / with at least one matching link
PageOk(n) == ListingAt(n).outcome = "response" /\ ListingAt(n).status = HTTP_OK
PageHasLinks(n) == PageOk(n) /\ ListingAt(n).links # <<>>
PageStatusFailed(n) ==
    ListingAt(n).outcome = "response" /\ ListingAt(n).status # HTTP_OK
PageRaises(n) == ListingAt(n).outcome = "exception"

\* the paths on listing indices 1..n
LinksUpTo(n) == UNION {Range(ListingAt(m).links) : m \in 1..n}

\* listing index n answers 200 with links, none of which is new
PageOnlyRepeats(n) ==
    PageHasLinks(n) /\ Range(ListingAt(n).links) \subseteq LinksUpTo(n - 1)

NoDuplicates(s) == \A i, j \in 1..Len(s) : s[i] = s[j] => i = j

\* position of the first occurrence of x in s (0 when absent)
FirstPos(s, x) ==
    IF x \in Range(s) THEN CHOOSE i \in 1..Len(s) :
                               s[i] = x /\ \A j \in 1..(i - 1) : s[j] # x
    ELSE 0

\* number of records of the sequence that came from the page of company l
RecordsOf(data, l) ==
    Cardinality({i \in 1..Len(data) : data[i].company_name = <<l>>})

FetchSucceeded(l) ==
    detail[l].outcome = "response" /\ detail[l].status = HTTP_OK
HasHeading(l) == detail[l].doc.h1 # <<>>

\* ------------------------------------------------------------------ C1
\* C1 (as claimed): discovery stops at the first listing page that yields
\* no link that is new, so no listing page is requested beyond a
\* successfully fetched page that is empty or only repeats collected links.
C1_StopsAtFirstPageWithoutNewLinks ==
    \A n \in FetchedPages : \A m \in 1..(n - 1) :
        ~ (PageOk(m) /\ Range(ListingAt(m).links) \subseteq LinksUpTo(m - 1))

\* C1 (amended): discovery stops at the first listing page that, fetched
\* successfully, has no matching link at all: every page before a requested
\* one answered 200 with at least one matching link, and when the loop has
\* been left the last requested page raised, failed or was empty; a page
\* that only repeats collected links is followed by the next page.
C1_StopsAtFirstEmptyPage ==
    /\ \A n \in FetchedPages : \A m \in 1..(n - 1) : PageHasLinks(m)
    /\ (DiscoveryEnded \/ pc = "aborted") =>
           /\ page \in FetchedPages
           /\ \A n \in FetchedPages : n <= page
           /\ ~ PageHasLinks(page)
    /\ \A n \in FetchedPages :
           PageOnlyRepeats(n) =>
               \/ (n + 1) \in FetchedPages
               \/ pc = "get_company_links" /\ page = n + 1

\* a page that only repeated collected links was passed and discovery
\* ended later, on an empty page
C1_Witness ==
    /\ DiscoveryReturned
    /\ \E n \in FetchedPages : PageOnlyRepeats(n) /\ (n + 1) \in FetchedPages
    /\ PageOk(page) /\ ListingAt(page).links = <<>>

\* ------------------------------------------------------------------ C2
\* C2: the list returned by get_company_links holds every collected path
\* exactly once, whether it recurred within a page or across pages, and
\* the per-link loop requests no detail page twice.
C2_NoDuplicateLinks ==
    /\ DiscoveryReturned =>
           /\ NoDuplicates(unique_links)
           /\ Range(unique_links) = Range(company_links)
    /\ \A i, j \in 1..Len(log) :
           (log[i].kind = "detail" /\ log[j].kind = "detail"
            /\ log[i].arg = log[j].arg) => i = j

\* a path occurred twice on page 1 and again on page 2, and the run is over
C2_Witness ==
    /\ pc = "done"
    /\ \E l \in Links :
           /\ Len(SelectSeq(company_links, LAMBDA x : x = l)) >= 3
           /\ PageHasLinks(2) /\ l \in Range(ListingAt(2).links)
           /\ l \in FetchedLinks
    /\ Len(unique_links) = 2

\* ------------------------------------------------------------------ C3
\* C3: at the end of the run, every discovered link whose detail page was
\* fetched with status 200 has exactly one record in the output when the
\* page has the primary heading and none when it lacks it, whatever the
\* state of the optional sections.
C3_RecordIffHeading ==
    pc = "done" =>
        \A l \in Range(unique_links) :
            FetchSucceeded(l) =>
                /\ RecordsOf(all_data, l) = (IF HasHeading(l) THEN 1 ELSE 0)
                /\ RecordsOf(companies_json[1], l) =
                       (IF HasHeading(l) THEN 1 ELSE 0)

\* one page with heading and a malformed team card kept its record, and
\* one page without heading left none
C3_Witness ==
    /\ pc = "done"
    /\ \E l \in Range(unique_links) :
           /\ FetchSucceeded(l) /\ HasHeading(l)
           /\ detail[l].doc.team[1].shape = "noRole"
           /\ RecordsOf(all_data, l) = 1
    /\ \E l \in Range(unique_links) :
           /\ FetchSucceeded(l) /\ ~ HasHeading(l)
           /\ RecordsOf(all_data, l) = 0

\* ------------------------------------------------------------------ C4
\* C4: links are processed in the order of their first appearance on the
\* listing pages, and the records of the output are in that order.
C4_OutputInDiscoveryOrder ==
    DiscoveryReturned =>
        /\ \A i, j \in 1..Len(unique_links) :
               i < j => FirstPos(company_links, unique_links[i])
                            < FirstPos(company_links, unique_links[j])
        /\ \A i, j \in 1..Len(all_data) :
               i < j => FirstPos(company_links, all_data[i].company_name[1])
                            < FirstPos(company_links,
                                       all_data[j].company_name[1])

\* ------------------------------------------------------------------ C5
FetchFailed(l) == ~ FetchSucceeded(l)

\* C5: an iteration whose detail fetch fails (status or transport) leaves
\* the output as it was and moves on to the next link; at the end every
\* link was requested and the output has one record per link whose fetch
\* and extraction succeeded.
C5_FailedFetchSkipsOnlyThatLink ==
    /\ [][(pc = "for_links" /\ idx <= Len(unique_links)
           /\ FetchFailed(unique_links[idx]))
          => (all_data' = all_data /\ idx' = idx + 1 /\ pc' = "for_links"
              /\ unique_links[idx] \in FetchedLinks')]_vars
    /\ [](pc = "done" =>
            /\ FetchedLinks = Range(unique_links)
            /\ Len(companies_json[1]) =
                   Cardinality({l \in Range(unique_links) :
                                    FetchSucceeded(l) /\ HasHeading(l)}))

\* the first link failed, the second one succeeded and has its record
C5_Witness ==
    /\ pc = "done"
    /\ Len(unique_links) = 2
    /\ FetchFailed(unique_links[1])
    /\ FetchSucceeded(unique_links[2]) /\ HasHeading(unique_links[2])
    /\ Len(all_data) = 1

\* ------------------------------------------------------------------ C6
\* C6: a transport failure on a listing page, page 1 included, ends
\* discovery softly like a failed fetch; the run is never aborted.
C6_ListingTransportFailureIsSoft ==
    \A n \in FetchedPages : PageRaises(n) => DiscoveryEnded

\* ------------------------------------------------------------------ C7
\* C7: when listing page k answers with a non-success status, no page
\* beyond k is requested, the run is not aborted, the returned list holds
\* exactly the distinct links of pages 1..k-1, and the loop processes them.
C7_StatusFailureKeepsLinks ==
    \A k \in FetchedPages :
        PageStatusFailed(k) =>
            /\ \A n \in FetchedPages : n <= k
            /\ DiscoveryEnded
            /\ DiscoveryReturned =>
                   /\ Range(unique_links) = LinksUpTo(k - 1)
                   /\ NoDuplicates(unique_links)
            /\ pc = "done" => FetchedLinks = LinksUpTo(k - 1)

\* page 2 failed with a status (its body even shows links), page 1's
\* links were returned and processed
C7_Witness ==
    /\ pc = "done"
    /\ 2 \in FetchedPages /\ PageStatusFailed(2)
    /\ ListingAt(2).links # <<>>
    /\ unique_links # <<>>
    /\ FetchedLinks = LinksUpTo(1)

\* ------------------------------------------------------------------ C8
\* C8 (as claimed): every request, listing or detail, is followed by a
\* delay before the next request, the discovery-ending listing fetch
\* included.
C8_DelayAfterEveryRequest ==
    \A i \in 1..(Len(log) - 1) :
        IsRequest(log[i]) => log[i + 1].kind = "sleep"

\* C8 (amended): a delay follows every listing fetch that yields at least
\* one matching link and every detail fetch, so no listing-listing and no
\* detail-detail pair of requests is adjacent; the listing fetch that ends
\* discovery (failed or empty page) has no delay after it, the first detail
\* fetch follows it directly.
C8_DelayExceptAfterLastListing ==
    \A i \in 1..Len(log) :
        /\ (log[i].kind = "listing" /\ PageHasLinks(log[i].arg)) =>
               /\ i < Len(log)
               /\ log[i + 1] = [kind |-> "sleep", arg |-> LISTING_DELAY]
        /\ log[i].kind = "detail" =>
               /\ i < Len(log)
               /\ log[i + 1] = [kind |-> "sleep", arg |-> DETAIL_DELAY]
        /\ (log[i].kind = "listing" /\ ~ PageHasLinks(log[i].arg)
            /\ i < Len(log)) =>
               log[i + 1].kind = "detail"

\* two detail fetches follow a discovery that ended on an empty page, the
\* first of them right after the last listing fetch
C8_Witness ==
    /\ Len(log) >= 7
    /\ log[1].kind = "listing" /\ log[2].kind = "sleep"
    /\ log[3].kind = "listing" /\ log[4].kind = "detail"
    /\ log[5].kind = "sleep" /\ log[6].kind = "detail"

\* ------------------------------------------------------------------ C9
\* number of listing requests so far
NumListingFetches == Len(SelectSeq(log, LAMBDA e : e.kind = "listing"))

\* C9: listing indices are requested as 1, 2, 3, ... without gap or
\* repetition; when pages 1..k answer 200 with links and page k+1 answers
\* 200 without, discovery makes exactly k+1 requests and returns exactly
\* the links of pages 1..k (k = 0: no link, empty output, no abort).
C9_PagesInOrderAndExactResult ==
    /\ LET fetches == SelectSeq(log, LAMBDA e : e.kind = "listing")
       IN  \A i \in 1..Len(fetches) : fetches[i].arg = i
    /\ \A k \in 0..PageCap :
           ((\A m \in 1..k : PageHasLinks(m))
            /\ PageOk(k + 1) /\ ListingAt(k + 1).links = <<>>) =>
               /\ pc # "aborted"
               /\ NumListingFetches <= k + 1
               /\ DiscoveryEnded => NumListingFetches = k + 1
               /\ DiscoveryReturned => Range(unique_links) = LinksUpTo(k)
               /\ (pc = "done" /\ k = 0) =>
                      /\ unique_links = <<>>
                      /\ all_data = <<>>
                      /\ companies_json = << <<>> >>

\* two pages with different links, then an empty third page
C9_Witness ==
    /\ pc = "done"
    /\ PageHasLinks(1) /\ PageHasLinks(2)
    /\ PageOk(3) /\ ListingAt(3).links = <<>>
    /\ Range(ListingAt(1).links) # Range(ListingAt(2).links)
    /\ NumListingFetches = 3
    /\ Len(unique_links) = 2

\* the listing is empty from page 1 on and the run ended with empty output
C9_WitnessEmptyListing ==
    /\ pc = "done"
    /\ PageOk(1) /\ ListingAt(1).links = <<>>
    /\ companies_json = << <<>> >>

\* ------------------------------------------------------------------ C10
\* the site has a listing index at which the fetch fails or the page has
\* no matching link
ListingHasEnd == \E n \in 1..PageCap : ~ PageHasLinks(n)

\* C10: if the listing has an index at which the fetch fails or the page
\* has no matching link, get_company_links eventually returns and the run
\* eventually finishes.
C10_DiscoveryReturnsAndRunFinishes ==
    ListingHasEnd => (<>DiscoveryReturned /\ <>(pc = "done"))

\* the part of C10 that the code does satisfy: the pagination loop is
\* always left, by a break or by the exception
C10_LoopIsLeft ==
    ListingHasEnd => <>(pc \in {"done", "aborted"})

\* ------------------------------------------------------------------ C11
\* C11: every GET has a bounded timeout, so the script is never left in a
\* fetch that no answer and no timeout will end ("in_fetch" is the position
\* of a requests.get call that never returns).
C11_NoFetchWaitsForever == pc # "in_fetch"

\* ------------------------------------------------- the extraction inputs
\* the document of /companies/1 and the record made of it
PageDoc == detail[1].doc
ExtractionDone == pc = "done" /\ Len(all_data) = 1

\* text t is text u without whitespace at its two ends
IsStripOf(t, u) ==
    /\ t = <<>> \/ (t[1] # 0 /\ t[Len(t)] # 0)
    /\ \E i \in 1..(Len(u) + 1) : \E j \in 0..Len(u) :
           /\ t = SubSeq(u, i, j)
           /\ \A k \in 1..Len(u) : (k < i \/ k > j) => u[k] = 0

\* ------------------------------------------------------------------ C12
\* C12 (as claimed): every record of the output has a non-empty
\* company_name; a heading that is absent, empty or whitespace-only leaves
\* no record.
C12_NamesNeverEmpty ==
    /\ \A i \in 1..Len(all_data) : all_data[i].company_name # <<>>
    /\ pc = "done" =>
           \A i \in 1..Len(companies_json[1]) :
               companies_json[1][i].company_name # <<>>

\* C12 (amended): a page whose primary heading is absent leaves no record;
\* a page whose heading is present leaves one record whose company_name is
\* the stripped heading text, which is the empty string when the heading
\* is empty or whitespace-only.
C12_RecordIffHeadingElement ==
    pc = "done" =>
        /\ PageDoc.h1 = <<>> => companies_json = << <<>> >>
        /\ PageDoc.h1 # <<>> =>
               /\ Len(companies_json[1]) = 1
               /\ IsStripOf(companies_json[1][1].company_name, PageDoc.h1[1])

\* the heading is whitespace only and its record is in the output
C12_Witness ==
    /\ pc = "done"
    /\ PageDoc.h1 = << <<0, 0>> >>
    /\ Len(companies_json[1]) = 1
    /\ companies_json[1][1].company_name = <<>>

\* ------------------------------------------------------------------ C13
\* the fields of the record of the complete page of company 1, team aside
OtherFieldsAsExtracted(rec) ==
    /\ rec.company_name = <<1>>
    /\ rec.tagline = <<1>>
    /\ rec.website = <<1>>
    /\ rec.location = <<1>>
    /\ rec.description = <<1>>
    /\ rec.tags = << <<1>> >>
    /\ rec.problem_statement = <<1, 1>>
    /\ rec.milestones = << [date |-> <<1>>, title |-> <<1>>,
                            description |-> <<1>>] >>
    /\ rec.founded_date = <<"2020">>
    /\ rec.last_updated = <<"2024">>

\* a member card whose extraction raises (lines 115-116)
CardFails(card) == card.shape = "noRole"
SomeCardFails == \E i \in 1..Len(PageDoc.team) : CardFails(PageDoc.team[i])

\* the entries of the member cards that are complete
CompleteMembers ==
    LET good == SelectSeq(PageDoc.team, LAMBDA c : c.shape = "ok")
    IN  [i \in 1..Len(good) |-> [name |-> good[i].name, role |-> good[i].name]]

\* C13 (as claimed): when the extraction of an optional field fails on a
\* page with the heading, the record is kept, the failing field is at its
\* default and the other fields are as without the failure.
C13_FailingFieldAtDefault ==
    (pc = "done" /\ PageDoc.h1 = << <<0, 1>> >> /\ SomeCardFails) =>
        /\ Len(all_data) = 1
        /\ all_data[1].team = <<>>
        /\ OtherFieldsAsExtracted(all_data[1])

\* C13 (amended): when the extraction of a team card fails on a page with
\* the heading, the record is kept, only the failing card is left out of
\* team (the complete cards stay, in order) and the other fields are as
\* without the failure.
C13_FailingCardOmittedOnly ==
    (pc = "done" /\ PageDoc.h1 = << <<0, 1>> >> /\ SomeCardFails) =>
        /\ Len(all_data) = 1
        /\ all_data[1].team = CompleteMembers
        /\ OtherFieldsAsExtracted(all_data[1])

\* a failing card between two complete ones: the record has both of them
C13_Witness ==
    /\ ExtractionDone
    /\ Len(PageDoc.team) = 3
    /\ PageDoc.team[1].shape = "ok" /\ CardFails(PageDoc.team[2])
    /\ PageDoc.team[3].shape = "ok"
    /\ Len(all_data[1].team) = 2

\* ------------------------------------------------------------------ C14
\* C14: team holds exactly the member cards that have the name block and
\* the role sub-line, milestones exactly the cards that have date marker
\* and title, both in document order; a milestone without description has
\* description ''.
C14_ExactlyWellFormedCards ==
    ExtractionDone =>
        LET rec == all_data[1]
            goodM == SelectSeq(PageDoc.milestones,
                               LAMBDA c : c.date /\ c.title)
        IN  /\ rec.team = CompleteMembers
            /\ Len(rec.milestones) = Len(goodM)
            /\ \A i \in 1..Len(goodM) :
                   /\ rec.milestones[i].date = <<goodM[i].id>>
                   /\ rec.milestones[i].title = <<goodM[i].id>>
                   /\ rec.milestones[i].description =
                          (IF goodM[i].description THEN <<goodM[i].id>>
                           ELSE <<>>)

\* a milestone without description, one without title, then a complete one
C14_Witness ==
    /\ ExtractionDone
    /\ Len(PageDoc.milestones) = 3
    /\ PageDoc.milestones[1].date /\ PageDoc.milestones[1].title
    /\ ~ PageDoc.milestones[1].description
    /\ PageDoc.milestones[2].date /\ ~ PageDoc.milestones[2].title
    /\ PageDoc.milestones[3].date /\ PageDoc.milestones[3].title
    /\ PageDoc.milestones[3].id # PageDoc.milestones[1].id
    /\ Len(all_data[1].milestones) = 2
    /\ all_data[1].milestones[1].description = <<>>

\* ------------------------------------------------------------------ C15
\* C15: companies.json is written once, by the step that ends the run and
\* only after every returned link has been requested; before that step, and
\* in a run that is aborted, no output exists.
C15_OutputWrittenOnceAtEnd ==
    /\ [](pc # "done" => companies_json = <<>>)
    /\ [](pc = "done" =>
            /\ companies_json = <<all_data>>
            /\ FetchedLinks = Range(unique_links))
    /\ [][companies_json' # companies_json =>
              /\ companies_json = <<>>
              /\ pc = "for_links" /\ pc' = "done"
              /\ FetchedLinks = Range(unique_links)]_vars

\* both links were attempted, one of them failed, and the file has the
\* record of the other
C15_Witness ==
    /\ pc = "done"
    /\ Len(unique_links) = 2
    /\ FetchedLinks = {1, 2}
    /\ Len(companies_json[1]) = 1

\* ------------------------------------------------------------------ C16
\* C16: within one run no listing index and no detail path is requested
\* twice, whether the request succeeded or failed.
C16_NoRequestRepeated ==
    \A i, j \in 1..Len(log) :
        (i # j /\ IsRequest(log[i]) /\ IsRequest(log[j])
         /\ log[i].kind = log[j].kind) => log[i].arg # log[j].arg

\* a path repeated on the listing was requested once although its fetch
\* failed, and the listing ended on a failed page that was not asked again
C16_Witness ==
    /\ pc = "done"
    /\ PageStatusFailed(page) /\ page >= 2
    /\ \E l \in FetchedLinks :
           /\ FetchFailed(l)
           /\ Len(SelectSeq(company_links, LAMBDA x : x = l)) >= 2

\* ------------------------------------------------------------------ C17
\* the links processed so far whose page was fetched and has the heading
SucceededSoFar ==
    SelectSeq(SubSeq(unique_links, 1, idx - 1),
              LAMBDA l : FetchSucceeded(l) /\ HasHeading(l))

\* C17: during the per-link loop the output equals the records of the
\* processed links that succeeded, in processing order, and every step
\* keeps the records already in the output as a prefix.
C17_OutputGrowsByAppending ==
    /\ [](pc \in {"for_links", "done"} =>
            /\ Len(all_data) = Len(SucceededSoFar)
            /\ \A i \in 1..Len(all_data) :
                   all_data[i].company_name = <<SucceededSoFar[i]>>)
    /\ [][pc = "for_links" =>
              /\ Len(all_data') >= Len(all_data)
              /\ SubSeq(all_data', 1, Len(all_data)) = all_data]_vars

\* both links processed, both records in the output
C17_Witness ==
    /\ pc = "for_links"
    /\ idx = 3
    /\ Len(all_data) = 2
    /\ all_data[1].company_name # all_data[2].company_name

\* ------------------------------------------------------------------ C18
\* positions of the text blocks that come right after a section heading
\* containing "Problem statement"
RightAfterProblemHeading ==
    {i \in 2..Len(PageDoc.body) :
         /\ PageDoc.body[i].kind = "text"
         /\ PageDoc.body[i - 1].kind = "h2" /\ PageDoc.body[i - 1].ps}

\* C18: problem_statement is the text of the last text block that comes
\* right after a "Problem statement" section heading; a block separated
\* from that heading by other text blocks does not set it, and it stays
\* empty when no block qualifies.
C18_ProblemStatementRightAfterHeading ==
    ExtractionDone =>
        IF RightAfterProblemHeading = {}
        THEN all_data[1].problem_statement = <<>>
        ELSE LET last == CHOOSE i \in RightAfterProblemHeading :
                             \A k \in RightAfterProblemHeading : k <= i
             IN  IsStripOf(all_data[1].problem_statement,
                           PageDoc.body[last].text)

\* ------------------------------------------------------------------ C19
\* a chip text with at least one token that is not whitespace
HasRealText(t) == \E i \in 1..Len(t) : t[i] # 0

\* C19: tags has one entry per chip with real text, in document order, and
\* no entry for a chip whose text is empty or whitespace only, so no entry
\* is the empty string.
C19_TagsNeverEmpty ==
    ExtractionDone =>
        LET real == SelectSeq(PageDoc.tags, HasRealText)
        IN  /\ \A i \in 1..Len(all_data[1].tags) : all_data[1].tags[i] # <<>>
            /\ Len(all_data[1].tags) = Len(real)
            /\ \A i \in 1..Len(real) :
                   i <= Len(all_data[1].tags)
                   => IsStripOf(all_data[1].tags[i], real[i])

\* ------------------------------------------------------------------ C20
PageBadges == PageDoc.social[1].dates
StartsWith(text, label) == text # <<>> /\ text[1] = label

\* C20: a stored date never contains its label, and a badge that does not
\* start with a label sets neither field: founded_date stays empty unless
\* some badge starts with "Founded", last_updated unless some badge starts
\* with "Profile updated".
C20_DatesByLeadingLabel ==
    ExtractionDone =>
        /\ ~ Contains(all_data[1].founded_date, FOUNDED)
        /\ ~ Contains(all_data[1].last_updated, PROFILE_UPDATED)
        /\ (\A i \in 1..Len(PageBadges) : ~ StartsWith(PageBadges[i], FOUNDED))
               => all_data[1].founded_date = <<>>
        /\ (\A i \in 1..Len(PageBadges) :
                ~ StartsWith(PageBadges[i], PROFILE_UPDATED))
               => all_data[1].last_updated = <<>>

\* ------------------------------------------------------------------ C21
\* the site answers every listing index with status 200 and the same
\* non-empty list of matching links
SameListForever ==
    /\ Len(listing) >= 1
    /\ tail = "repeat"
    /\ PageHasLinks(1)
    /\ \A n \in 1..Len(listing) : listing[n] = listing[1]

\* C21: against a site that answers every listing index with success and
\* the same non-empty list, get_company_links never returns: the loop is
\* never left, the indices requested so far are 1..page-1 with the next
\* request always possible (up to the index the model allows), the list
\* grows by the same links each time, no detail page is requested and
\* nothing is written.
C21_SameListNeverReturns ==
    SameListForever =>
        /\ pc = "get_company_links"
        /\ FetchedPages = 1..(page - 1)
        /\ NumListingFetches = page - 1
        /\ Len(company_links) = (page - 1) * Len(listing[1].links)
        /\ Range(company_links) \subseteq Range(listing[1].links)
        /\ page <= PageCap => ENABLED ScanPage
        /\ FetchedLinks = {}
        /\ unique_links = <<>>
        /\ all_data = <<>>
        /\ companies_json = <<>>

\* every index the model allows has been requested and the loop is still
\* not left
C21_Witness ==
    /\ SameListForever
    /\ page = PageCap + 1
    /\ NumListingFetches = PageCap
    /\ pc = "get_company_links"

====
